---- MODULE Spec2Model ----
(***************************************************************************)
(* The Category / Topic editor of front-vibecoding.                         *)
(*                                                                         *)
(* Category (components/Category.tsx) owns three pieces of React state:     *)
(* topics, newTopicName and filter.  Each Topic component (Topic.tsx) that  *)
(* is rendered owns isEditing and name (its edit buffer).  React runs one   *)
(* event handler to completion and re-renders before the next discrete      *)
(* event, so one handler invocation plus the re-render is one step.         *)
(*                                                                         *)
(* Strings are sequences of one-character strings, so that trim,           *)
(* toLowerCase and includes are computed, not assumed.                      *)
(***************************************************************************)
EXTENDS Integers, Sequences, FiniteSets, TLC

VARIABLES
    topics,        \* Category: useState(category.topics)
    newTopicName,  \* Category: useState('')
    filter,        \* Category: useState('')
    views,         \* mounted Topic components: id -> [isEditing, name]
    closure,       \* Category: the state values its handlers closed over
                   \*   at the last render
    issued,        \* number of identifiers the uuid generator has handed out
    seenIds,       \* history: every id that has ever been in topics
    openEdits,     \* history: ids whose record view was put into Editing with
                   \*   no commit for that id since
    lastEvent,     \* history: the handler that ran last and its arguments
    events         \* history: number of events processed

vars == <<topics, newTopicName, filter, views, closure, issued, seenIds,
          openEdits, lastEvent, events>>

(***************************************************************************)
(* Bounds of the model                                                     *)
(***************************************************************************)
\* number of user events explored from the initial render
MaxEvents == 5

\* number of direct handler calls explored from the initial render
MaxCalls == 3

\* longest name and query drawn for the filter function on its own
MaxLen == 2

(***************************************************************************)
(* Strings                                                                 *)
(***************************************************************************)
\* characters String.prototype.trim removes that occur in the model
WhiteSpace == {" ", "\t"}

UpperLetters == <<"A","B","C","D","E","F","G","H","I","J","K","L","M",
                  "N","O","P","Q","R","S","T","U","V","W","X","Y","Z">>

LowerLetters == <<"a","b","c","d","e","f","g","h","i","j","k","l","m",
                  "n","o","p","q","r","s","t","u","v","w","x","y","z">>

LowerChar(c) ==
    IF \E i \in DOMAIN UpperLetters : UpperLetters[i] = c
    THEN LowerLetters[CHOOSE i \in DOMAIN UpperLetters : UpperLetters[i] = c]
    ELSE c

\* String.prototype.toLowerCase
ToLowerCase(s) == [i \in 1..Len(s) |-> LowerChar(s[i])]

RECURSIVE TrimStart(_)
TrimStart(s) ==
    IF s # <<>> /\ Head(s) \in WhiteSpace THEN TrimStart(Tail(s)) ELSE s

RECURSIVE TrimEnd(_)
TrimEnd(s) ==
    IF s # <<>> /\ s[Len(s)] \in WhiteSpace
    THEN TrimEnd(SubSeq(s, 1, Len(s) - 1))
    ELSE s

\* a trim that was left out
TrimNone(s) == s

\* String.prototype.trim
Trim(s) == TrimEnd(TrimStart(s))

\* String.prototype.includes
Includes(s, q) ==
    \E i \in 0..(Len(s) - Len(q)) : SubSeq(s, i + 1, i + Len(q)) = q

(***************************************************************************)
(* Identifiers                                                             *)
(***************************************************************************)
\* an id written in App.tsx ('1'..'4')
Lit(n) == [kind |-> "lit", n |-> n]

\* a generator that hands out one and the same identifier
V1Stale(n) == [kind |-> "uuid", n |-> 1]

\* uuid v1(): the (n+1)-th identifier of the generator, a 36-character
\* string and so never one of the one-character ids of App.tsx
V1(n) == [kind |-> "uuid", n |-> n + 1]

(***************************************************************************)
(* App.tsx                                                                 *)
(***************************************************************************)
initialCategory ==
    [ id     |-> Lit(1),
      name   |-> <<"F","r","o","n","t","e","n","d">>,
      topics |-> << [id |-> Lit(1), name |-> <<"H","T","M","L">>],
                    [id |-> Lit(2), name |-> <<"C","S","S">>],
                    [id |-> Lit(3), name |-> <<"J","a","v","a","S","c","r","i","p","t">>],
                    [id |-> Lit(4), name |-> <<"R","e","a","c","t">>] >> ]

(***************************************************************************)
(* What the user can enter into a text input                               *)
(***************************************************************************)
Typed ==
    { <<>>,
      <<" ">>,
      <<"s">>,
      <<" ","S"," ">> }

(***************************************************************************)
(* Category.tsx: the values its handlers pass to setTopics                 *)
(***************************************************************************)
\* [...topics, newTopic]
CreateTopicsAppend(ts, raw, id) == ts \o <<[id |-> id, name |-> Trim(raw)]>>

\* [newTopic, ...topics]
CreateTopics(ts, raw, id) == <<[id |-> id, name |-> Trim(raw)]>> \o ts

\* topic.id === id
KeepTopicSame(t, id) == t.id = id

\* topic.id !== id
KeepTopic(t, id) == t.id # id

\* topics.splice(topics.findIndex(...), 1): an absent id gives index -1,
\* which removes the last element
DeleteTopicsSplice(ts, id) ==
    IF \E i \in 1..Len(ts) : ts[i].id = id
    THEN SelectSeq(ts, LAMBDA t : KeepTopic(t, id))
    ELSE SubSeq(ts, 1, Len(ts) - 1)

\* topics.filter((topic) => topic.id !== id)
DeleteTopics(ts, id) == SelectSeq(ts, LAMBDA t : KeepTopic(t, id))

\* { ...topic, name: newName } for every topic
UpdateTopicAll(t, id, newName) == [t EXCEPT !.name = newName]

\* topic.id === id ? { ...topic, name: newName.trim() } : topic
UpdateTopicTrim(t, id, newName) ==
    IF t.id = id THEN [t EXCEPT !.name = Trim(newName)] ELSE t

\* topic.id !== id ? { ...topic, name: newName } : topic
UpdateTopicOthers(t, id, newName) ==
    IF t.id # id THEN [t EXCEPT !.name = newName] ELSE t

\* topic.id === id ? { id: <another id>, name: newName } : topic
UpdateTopicNewId(t, id, newName) ==
    IF t.id = id THEN [id |-> [kind |-> "uuid", n |-> 0], name |-> newName] ELSE t

\* topic.id === id ? { ...topic, name: newName } : topic
UpdateTopic(t, id, newName) ==
    IF t.id = id THEN [t EXCEPT !.name = newName] ELSE t

\* topics.map(...)
UpdateTopics(ts, id, newName) ==
    [i \in 1..Len(ts) |-> UpdateTopic(ts[i], id, newName)]

\* topic.name.includes(filter)
MatchesExact(t, f) == Includes(t.name, f)

\* topic.name.toLowerCase().includes(filter.toLowerCase())
Matches(t, f) == Includes(ToLowerCase(t.name), ToLowerCase(f))

\* const filteredTopics = topics.filter(...)
FilteredTopics(ts, f) == SelectSeq(ts, LAMBDA t : Matches(t, f))

(***************************************************************************)
(* Rendering: one Topic component per element of filteredTopics, keyed by  *)
(* topic.id.  A component that stays keeps its state, a new one starts      *)
(* with useState(false) and useState(topic.name).                           *)
(***************************************************************************)
TopicIds(ts) == { ts[i].id : i \in 1..Len(ts) }

FirstWithId(ts, id) == ts[CHOOSE i \in 1..Len(ts) :
                            /\ ts[i].id = id
                            /\ \A j \in 1..(i - 1) : ts[j].id # id]

\* a component whose buffer starts empty (useState(''))
MountTopicBlank(t) == [isEditing |-> FALSE, name |-> <<>>]

MountTopic(t) == [isEditing |-> FALSE, name |-> t.name]

\* a list that is recomputed only when the filter text changes
\* (useMemo(..., [filter]))
RenderMemo(vs, ts, f) ==
    IF f = filter /\ DOMAIN vs # {}
    THEN vs
    ELSE [id \in TopicIds(FilteredTopics(ts, f)) |->
            IF id \in DOMAIN vs
            THEN vs[id]
            ELSE MountTopic(FirstWithId(FilteredTopics(ts, f), id))]

\* components that are created anew by every render of the list
\* (key={Math.random()})
RenderRemount(vs, ts, f) ==
    [id \in TopicIds(FilteredTopics(ts, f)) |->
        MountTopic(FirstWithId(FilteredTopics(ts, f), id))]

Render(vs, ts, f) ==
    [id \in TopicIds(FilteredTopics(ts, f)) |->
        IF id \in DOMAIN vs
        THEN vs[id]
        ELSE MountTopic(FirstWithId(FilteredTopics(ts, f), id))]

\* handlers that were created once and never again (useCallback(..., []))
ClosureStale(old, ts, n) == old

\* the handlers of Category are created anew by every render and read the
\* topics and newTopicName of that render
Closure(old, ts, n) == [topics |-> ts, newTopicName |-> n]

(***************************************************************************)
(* Initial render                                                          *)
(***************************************************************************)
Init ==
    /\ topics = initialCategory.topics
    /\ newTopicName = <<>>
    /\ filter = <<>>
    /\ views = Render(<<>>, initialCategory.topics, <<>>)
    /\ closure = [topics |-> initialCategory.topics, newTopicName |-> <<>>]
    /\ issued = 0
    /\ seenIds = TopicIds(initialCategory.topics)
    /\ openEdits = {}
    /\ lastEvent = [op |-> "mount"]
    /\ events = 0

Step == events < MaxEvents /\ events' = events + 1

(***************************************************************************)
(* Category.tsx handlers                                                   *)
(***************************************************************************)
\* onChange={(e) => setNewTopicName(e.target.value)}
SetNewTopicNameTo(s) ==
    /\ newTopicName' = s
    /\ lastEvent' = [op |-> "setNewTopicName", value |-> s]
    /\ UNCHANGED <<topics, filter, views, issued, seenIds, openEdits>>
    /\ closure' = Closure(closure, topics', newTopicName')

SetNewTopicName ==
    \E s \in Typed : Step /\ SetNewTopicNameTo(s)

\* setFilter(value) and the re-render
SetFilterTo(s) ==
    /\ filter' = s
    /\ views' = Render(views, topics, s)
    /\ lastEvent' = [op |-> "setFilter", value |-> s]
    /\ UNCHANGED <<topics, newTopicName, issued, seenIds, openEdits>>
    /\ closure' = Closure(closure, topics', newTopicName')

\* onChange={(e) => setFilter(e.target.value)}
SetFilter ==
    \E s \in Typed : Step /\ SetFilterTo(s)

\* a handleCreateTopic without setNewTopicName('')
HandleCreateTopicKeep ==
    /\ Step
    /\ lastEvent' = [op |-> "create", raw |-> closure.newTopicName]
    /\ IF Trim(closure.newTopicName) # <<>>
       THEN /\ topics' = CreateTopics(closure.topics, closure.newTopicName,
                                      V1(issued))
            /\ issued' = issued + 1
            /\ views' = Render(views, topics', filter)
            /\ seenIds' = seenIds \cup {V1(issued)}
       ELSE UNCHANGED <<topics, issued, views, seenIds>>
    /\ UNCHANGED <<filter, openEdits, newTopicName>>
    /\ closure' = Closure(closure, topics', newTopicName')

\* <button onClick={handleCreateTopic}>
HandleCreateTopic ==
    /\ Step
    /\ lastEvent' = [op |-> "create", raw |-> closure.newTopicName]
    /\ IF Trim(closure.newTopicName) # <<>>
       THEN /\ topics' = CreateTopics(closure.topics, closure.newTopicName,
                                      V1(issued))
            /\ issued' = issued + 1
            /\ newTopicName' = <<>>
            /\ views' = Render(views, topics', filter)
            /\ seenIds' = seenIds \cup {V1(issued)}
       ELSE UNCHANGED <<topics, issued, newTopicName, views, seenIds>>
    /\ UNCHANGED <<filter, openEdits>>
    /\ closure' = Closure(closure, topics', newTopicName')

\* handleDeleteTopic(id)
HandleDeleteTopic(id) ==
    /\ Step
    /\ topics' = DeleteTopics(closure.topics, id)
    /\ views' = Render(views, topics', filter)
    /\ lastEvent' = [op |-> "delete", id |-> id,
                      present |-> id \in TopicIds(topics),
                      view |-> IF id \in DOMAIN views THEN <<views[id]>> ELSE <<>>]
    /\ openEdits' = openEdits \ {id}
    /\ UNCHANGED <<newTopicName, filter, issued, seenIds>>
    /\ closure' = Closure(closure, topics', newTopicName')

\* handleUpdateTopic(id, newName), called with the flag a Topic component
\* sets in the same event (setIsEditing(false))
HandleUpdateTopic(id, newName, vs) ==
    /\ Step
    /\ topics' = UpdateTopics(closure.topics, id, newName)
    /\ views' = Render(vs, topics', filter)
    /\ lastEvent' = [op |-> "rename", id |-> id, name |-> newName,
                      present |-> id \in TopicIds(topics)]
    /\ openEdits' = openEdits \ {id}
    /\ UNCHANGED <<newTopicName, filter, issued, seenIds>>
    /\ closure' = Closure(closure, topics', newTopicName')

(***************************************************************************)
(* Topic.tsx handlers, of the mounted components                           *)
(***************************************************************************)
\* <button onClick={() => setIsEditing(true)}>Edit</button>
TopicEdit ==
    \E id \in DOMAIN views :
        /\ ~views[id].isEditing
        /\ Step
        /\ views' = [views EXCEPT ![id].isEditing = TRUE]
        /\ lastEvent' = [op |-> "edit", id |-> id]
        /\ openEdits' = openEdits \cup {id}
        /\ UNCHANGED <<topics, newTopicName, filter, closure, issued, seenIds>>

\* an input that reports every keystroke to Category
\* (onChange: setName(value); onUpdate(topic.id, value))
TopicSetNameLifted ==
    \E id \in DOMAIN views, s \in Typed :
        /\ views[id].isEditing
        /\ Step
        /\ topics' = UpdateTopics(closure.topics, id, s)
        /\ views' = Render([views EXCEPT ![id].name = s], topics', filter)
        /\ lastEvent' = [op |-> "setName", id |-> id, value |-> s]
        /\ UNCHANGED <<newTopicName, filter, issued, seenIds, openEdits>>
        /\ closure' = Closure(closure, topics', newTopicName')

\* onChange={(e) => setName(e.target.value)}
TopicSetName ==
    \E id \in DOMAIN views, s \in Typed :
        /\ views[id].isEditing
        /\ Step
        /\ views' = [views EXCEPT ![id].name = s]
        /\ lastEvent' = [op |-> "setName", id |-> id, value |-> s]
        /\ UNCHANGED <<topics, newTopicName, filter, closure, issued, seenIds,
                       openEdits>>

\* a handleUpdate without setIsEditing(false)
TopicHandleUpdateStay ==
    \E id \in DOMAIN views :
        /\ views[id].isEditing
        /\ HandleUpdateTopic(id, views[id].name, views)

\* <button onClick={handleUpdate}>Save</button>
TopicHandleUpdate ==
    \E id \in DOMAIN views :
        /\ views[id].isEditing
        /\ HandleUpdateTopic(id, views[id].name,
                             [views EXCEPT ![id].isEditing = FALSE])

\* <button onClick={handleDelete}>Delete</button>
TopicHandleDelete ==
    \E id \in DOMAIN views : HandleDeleteTopic(id)

Next ==
    \/ SetNewTopicName
    \/ SetFilter
    \/ HandleCreateTopic
    \/ TopicEdit
    \/ TopicSetName
    \/ TopicHandleUpdate
    \/ TopicHandleDelete

Spec == Init /\ [][Next]_vars

(***************************************************************************)
(* The handlers of Category.tsx called as functions, with any identifier   *)
(* and any name (the props onDelete / onUpdate and the create button)      *)
(***************************************************************************)
\* the ids that were ever in the collection and the next one not yet issued
IdPool == seenIds \cup {V1(issued)}

Call == events < MaxCalls

StoreSetNewTopicName == Call /\ SetNewTopicName

StoreSetFilter == Call /\ SetFilter

StoreCreate == Call /\ HandleCreateTopic

StoreDelete ==
    \E id \in IdPool : Call /\ HandleDeleteTopic(id)

StoreUpdate ==
    \E id \in IdPool, s \in Typed : Call /\ HandleUpdateTopic(id, s, views)

NextStore ==
    \/ StoreSetNewTopicName
    \/ StoreSetFilter
    \/ StoreCreate
    \/ StoreDelete
    \/ StoreUpdate

SpecStore == Init /\ [][NextStore]_vars


(***************************************************************************)
(* filteredTopics on its own: any collection of up to two topics with      *)
(* distinct ids and any filter text, names and text drawn from all strings *)
(* of at most MaxLen characters                                            *)
(***************************************************************************)
FilterAlphabet == {"a", "A", "b"}

Strs == UNION { [1..n -> FilterAlphabet] : n \in 0..MaxLen }

Collections ==
    {<<>>}
    \cup { <<[id |-> Lit(1), name |-> a]>> : a \in Strs }
    \cup { <<[id |-> Lit(1), name |-> a], [id |-> Lit(2), name |-> b]>> :
             a \in Strs, b \in Strs }

InitFilter ==
    /\ topics \in Collections
    /\ newTopicName = <<>>
    /\ filter = <<>>
    /\ views = Render(<<>>, topics, <<>>)
    /\ closure = [topics |-> topics, newTopicName |-> <<>>]
    /\ issued = 0
    /\ seenIds = TopicIds(topics)
    /\ openEdits = {}
    /\ lastEvent = [op |-> "mount"]
    /\ events = 0

\* the first event after the render: a text is entered into the filter input
TypeFilter ==
    \E s \in Strs : events = 0 /\ events' = 1 /\ SetFilterTo(s)

SpecFilter == InitFilter /\ [][TypeFilter]_vars

(***************************************************************************)
(* The same components with the texts "TypeScript" and "java" entered into *)
(* the two inputs of Category, and the create and delete buttons           *)
(***************************************************************************)
ScenarioTyped ==
    { <<>>,
      <<"T","y","p","e","S","c","r","i","p","t">>,
      <<"j","a","v","a">> }

ScenarioSetNewTopicName ==
    \E s \in ScenarioTyped : Step /\ SetNewTopicNameTo(s)

ScenarioSetFilter ==
    \E s \in ScenarioTyped : Step /\ SetFilterTo(s)

NextScenario ==
    \/ ScenarioSetNewTopicName
    \/ ScenarioSetFilter
    \/ HandleCreateTopic
    \/ TopicHandleDelete

SpecScenario == Init /\ [][NextScenario]_vars

(***************************************************************************)
(* Vocabulary of the properties, stated without the operators above        *)
(***************************************************************************)
Blank(s) == \A i \in 1..Len(s) : s[i] \in WhiteSpace

\* t is s without its leading and trailing white space
IsTrimmed(t, s) ==
    \E a \in 0..Len(s), b \in 0..Len(s) :
        /\ a + Len(t) + b = Len(s)
        /\ \A i \in 1..a : s[i] \in WhiteSpace
        /\ \A i \in 1..b : s[Len(s) + 1 - i] \in WhiteSpace
        /\ \A i \in 1..Len(t) : t[i] = s[a + i]
        /\ t # <<>> => (t[1] \notin WhiteSpace /\ t[Len(t)] \notin WhiteSpace)

\* the k-th smallest element of a set of positions
Nth(P, k) == CHOOSE i \in P : Cardinality({j \in P : j < i}) = k - 1

\* sub is the subsequence of ts at the positions P, in the order of ts
IsSubseqAt(sub, ts, P) ==
    /\ Len(sub) = Cardinality(P)
    /\ \A k \in 1..Len(sub) : sub[k] = ts[Nth(P, k)]

Positions(ts) == 1..Len(ts)

HasId(ts, id) == \E i \in Positions(ts) : ts[i].id = id

(***************************************************************************)
(* C1: after any sequence of create, delete and rename from the seed, the  *)
(* ids of the topics in the collection are pairwise distinct (the uuid     *)
(* generator never repeats an id).                                         *)
(***************************************************************************)
C1_IdsDistinct ==
    \A i \in Positions(topics), j \in Positions(topics) :
        i # j => topics[i].id # topics[j].id

\* a created topic is in the collection, a seed topic has been deleted and
\* the last event was a rename
C1_Witness ==
    /\ lastEvent.op = "rename"
    /\ \E i \in Positions(topics) : topics[i].id.kind = "uuid"
    /\ Len(topics) = Len(initialCategory.topics)

(***************************************************************************)
(* C2: every topic in the collection has a non-empty name, in every state  *)
(* reachable by create, rename (commits of an edit buffer) and delete.     *)
(***************************************************************************)
C2_NamesNonEmpty ==
    \A i \in Positions(topics) : topics[i].name # <<>>

(***************************************************************************)
(* C3: create with a raw name that is empty after trimming is a silent     *)
(* no-op: the collection is unchanged, no identifier is taken from the     *)
(* generator or put into the collection, and the rendered components are   *)
(* untouched (the program has no error state to enter).                    *)
(***************************************************************************)
C3_BlankCreateIsNoOp ==
    [][ (lastEvent'.op = "create" /\ Blank(lastEvent'.raw))
        => /\ lastEvent'.raw = newTopicName
           /\ topics' = topics
           /\ issued' = issued
           /\ seenIds' = seenIds
           /\ views' = views ]_vars

\* create was clicked with a white-space-only, non-empty input
C3_Witness ==
    /\ lastEvent.op = "create"
    /\ lastEvent.raw # <<>>
    /\ Blank(lastEvent.raw)

(***************************************************************************)
(* C4: create with a raw name that is not empty after trimming replaces    *)
(* the collection with [newTopic] followed by the previous collection,     *)
(* newTopic having a fresh id and the trimmed raw name; the filtered view  *)
(* for the empty query then starts with that topic.                        *)
(***************************************************************************)
C4_CreatePrepends ==
    [][ (lastEvent'.op = "create" /\ ~Blank(lastEvent'.raw))
        => /\ lastEvent'.raw = newTopicName
           /\ Len(topics') = Len(topics) + 1
           /\ Tail(topics') = topics
           /\ IsTrimmed(topics'[1].name, lastEvent'.raw)
           /\ topics'[1].id \notin seenIds
           /\ ~HasId(topics, topics'[1].id)
           /\ FilteredTopics(topics', <<>>) # <<>>
           /\ Head(FilteredTopics(topics', <<>>)) = topics'[1] ]_vars

\* create was clicked with " S ": the new topic "S" is at the head
C4_Witness ==
    /\ lastEvent.op = "create"
    /\ lastEvent.raw = <<" ","S"," ">>
    /\ Len(topics) > Len(initialCategory.topics)
    /\ topics[1].name = <<"S">>

(***************************************************************************)
(* C5: delete(id) replaces the collection with exactly the topics whose id *)
(* differs from id, in their previous relative order, each with its id and *)
(* name.                                                                   *)
(***************************************************************************)
C5_DeleteKeepsOthers ==
    [][ lastEvent'.op = "delete"
        => IsSubseqAt(topics', topics,
                      {i \in Positions(topics) : topics[i].id # lastEvent'.id}) ]_vars

\* a topic from the middle of the collection was deleted
C5_Witness ==
    /\ lastEvent.op = "delete"
    /\ lastEvent.present
    /\ lastEvent.id = Lit(2)
    /\ Len(topics) >= 3

(***************************************************************************)
(* C6: delete(id) with an id that is not in the collection leaves the      *)
(* collection unchanged (and the handler completes: there is no error to   *)
(* signal); so delete(id) right after delete(id) changes nothing.          *)
(***************************************************************************)
C6_DeleteAbsentIsNoOp ==
    [][ /\ (lastEvent'.op = "delete" /\ ~HasId(topics, lastEvent'.id))
           => (topics' = topics /\ ~lastEvent'.present)
        /\ (lastEvent.op = "delete" /\ lastEvent'.op = "delete"
              /\ lastEvent'.id = lastEvent.id)
           => topics' = topics ]_vars

\* two deletes in a row of the same seed id: the second found it absent
C6_Witness ==
    /\ events = 2
    /\ lastEvent.op = "delete"
    /\ ~lastEvent.present
    /\ lastEvent.id \in seenIds
    /\ Len(topics) = Len(initialCategory.topics) - 1

(***************************************************************************)
(* C7: rename(id, newName) yields a collection of the same length and the  *)
(* same id sequence, where the topic with the given id has name newName    *)
(* and every other topic its previous name; with no topic of that id the   *)
(* collection is unchanged.                                                *)
(***************************************************************************)
C7_RenameOnlyTarget ==
    [][ lastEvent'.op = "rename"
        => /\ Len(topics') = Len(topics)
           /\ \A i \in Positions(topics) :
                /\ topics'[i].id = topics[i].id
                /\ topics'[i].name =
                      IF topics[i].id = lastEvent'.id
                      THEN lastEvent'.name
                      ELSE topics[i].name
           /\ ~HasId(topics, lastEvent'.id) => topics' = topics ]_vars

\* a seed topic has been given another name, and the last rename named an
\* id that is not in the collection
C7_Witness ==
    /\ lastEvent.op = "rename"
    /\ ~lastEvent.present
    /\ Len(topics) = Len(initialCategory.topics)
    /\ \E i \in Positions(topics) :
         /\ topics[i].name # initialCategory.topics[i].name
         /\ \A j \in Positions(topics) \ {i} :
              topics[j] = initialCategory.topics[j]

(***************************************************************************)
(* C8: rename stores newName as given, neither trimmed nor rejected when   *)
(* empty or blank: after a commit of a record view, the topic's name is    *)
(* the text of the edit buffer character for character.                    *)
(***************************************************************************)
C8_RenameStoresVerbatim ==
    [][ (lastEvent'.op = "rename" /\ HasId(topics, lastEvent'.id))
        => /\ lastEvent'.id \in DOMAIN views
           /\ lastEvent'.name = views[lastEvent'.id].name
           /\ \E i \in Positions(topics') :
                /\ topics'[i].id = lastEvent'.id
                /\ topics'[i].name = views[lastEvent'.id].name ]_vars

\* a name with leading and trailing white space has been stored
C8_Witness ==
    /\ lastEvent.op = "rename"
    /\ lastEvent.name = <<" ","S"," ">>
    /\ \E i \in Positions(topics) :
         topics[i].id = lastEvent.id /\ topics[i].name = <<" ","S"," ">>

(***************************************************************************)
(* C9: the filtered view for a query is exactly the subsequence, in        *)
(* collection order, of the topics whose name contains the query when      *)
(* letter case is ignored; for the empty query it is the whole collection; *)
(* HTML, CSS, html5 filtered by "html" gives HTML, html5.                  *)
(***************************************************************************)
SameLetter(c, d) ==
    \/ c = d
    \/ \E j \in DOMAIN UpperLetters : {c, d} = {UpperLetters[j], LowerLetters[j]}

ContainsFolded(name, q) ==
    \E i \in 0..(Len(name) - Len(q)) :
        \A k \in 1..Len(q) : SameLetter(name[i + k], q[k])

ExampleTopics ==
    << [id |-> Lit(1), name |-> <<"H","T","M","L">>],
       [id |-> Lit(2), name |-> <<"C","S","S">>],
       [id |-> Lit(3), name |-> <<"h","t","m","l","5">>] >>

C9_FilterIsFoldedSubsequence ==
    /\ IsSubseqAt(FilteredTopics(topics, filter), topics,
                  {i \in Positions(topics) : ContainsFolded(topics[i].name, filter)})
    /\ FilteredTopics(topics, <<>>) = topics
    /\ DOMAIN views = TopicIds(FilteredTopics(topics, filter))
    /\ FilteredTopics(ExampleTopics, <<"h","t","m","l">>)
          = <<ExampleTopics[1], ExampleTopics[3]>>

\* the first topic does not match, the second matches only when case is
\* ignored, and it alone is displayed
C9_Witness ==
    /\ Len(topics) = 2
    /\ filter # <<>>
    /\ ~ContainsFolded(topics[1].name, filter)
    /\ ContainsFolded(topics[2].name, filter)
    /\ \A i \in 0..(Len(topics[2].name) - Len(filter)) :
         SubSeq(topics[2].name, i + 1, i + Len(filter)) # filter
    /\ DOMAIN views = {topics[2].id}

(***************************************************************************)
(* C10, as stated: for an id in the collection, after rename(id, n) the    *)
(* collection contains exactly one topic with name n, and it has that id.  *)
(***************************************************************************)
C10_ExactlyOneWithName ==
    [][ (lastEvent'.op = "rename" /\ HasId(topics, lastEvent'.id))
        => /\ Cardinality({i \in Positions(topics') :
                              topics'[i].name = lastEvent'.name}) = 1
           /\ \A i \in Positions(topics') :
                topics'[i].name = lastEvent'.name => topics'[i].id = lastEvent'.id
       ]_vars

(***************************************************************************)
(* C10, amended: for an id in the collection, after rename(id, n) the      *)
(* collection contains exactly one topic with that id, at its previous     *)
(* position, and its name is n; the topics named n are that topic and the  *)
(* other topics that were named n before.                                  *)
(***************************************************************************)
C10_OneWithIdNamed ==
    [][ (lastEvent'.op = "rename" /\ HasId(topics, lastEvent'.id))
        => /\ Cardinality({i \in Positions(topics') :
                              topics'[i].id = lastEvent'.id}) = 1
           /\ \A i \in Positions(topics') :
                topics'[i].id = lastEvent'.id
                   => (topics'[i].name = lastEvent'.name
                       /\ topics[i].id = lastEvent'.id)
           /\ {i \in Positions(topics') : topics'[i].name = lastEvent'.name}
                = {i \in Positions(topics) :
                      topics[i].id = lastEvent'.id \/ topics[i].name = lastEvent'.name}
       ]_vars

\* after a rename two topics carry the name given, one of them the target
C10_Witness ==
    /\ lastEvent.op = "rename"
    /\ lastEvent.present
    /\ \E i \in Positions(topics), j \in Positions(topics) :
         /\ i # j
         /\ topics[i].id = lastEvent.id
         /\ topics[i].name = lastEvent.name
         /\ topics[j].name = lastEvent.name

(***************************************************************************)
(* C11: from the seed [HTML, CSS, JavaScript, React] with ids 1..4,        *)
(* create("TypeScript") gives [TypeScript, HTML, CSS, JavaScript, React];  *)
(* then delete(id 2) gives [TypeScript, HTML, JavaScript, React]; then the *)
(* filtered view for "java" is [JavaScript].  (After two events that end   *)
(* with a create, three that end with a delete and four that end with a    *)
(* filter change, the counters identify the events that came before.)      *)
(***************************************************************************)
Names(ts) == [i \in Positions(ts) |-> ts[i].name]

IdNumbers(ts) == [i \in Positions(ts) |-> <<ts[i].id.kind, ts[i].id.n>>]

NameTypeScript == <<"T","y","p","e","S","c","r","i","p","t">>
NameHTML == <<"H","T","M","L">>
NameCSS == <<"C","S","S">>
NameJavaScript == <<"J","a","v","a","S","c","r","i","p","t">>
NameReact == <<"R","e","a","c","t">>

C11_SeedIsAsStated ==
    /\ Names(initialCategory.topics) = <<NameHTML, NameCSS, NameJavaScript, NameReact>>
    /\ IdNumbers(initialCategory.topics)
          = << <<"lit", 1>>, <<"lit", 2>>, <<"lit", 3>>, <<"lit", 4>> >>

C11_AfterCreate ==
    (/\ events = 2
     /\ lastEvent.op = "create"
     /\ lastEvent.raw = NameTypeScript)
    => /\ Names(topics)
            = <<NameTypeScript, NameHTML, NameCSS, NameJavaScript, NameReact>>
       /\ IdNumbers(Tail(topics))
            = << <<"lit", 1>>, <<"lit", 2>>, <<"lit", 3>>, <<"lit", 4>> >>

C11_AfterDelete ==
    (/\ events = 3
     /\ lastEvent.op = "delete"
     /\ lastEvent.id = Lit(2)
     /\ issued = 1
     /\ \E i \in Positions(topics) : topics[i].name = NameTypeScript)
    => /\ Names(topics) = <<NameTypeScript, NameHTML, NameJavaScript, NameReact>>
       /\ IdNumbers(Tail(topics)) = << <<"lit", 1>>, <<"lit", 3>>, <<"lit", 4>> >>

C11_AfterFilter ==
    (/\ events = 4
     /\ lastEvent.op = "setFilter"
     /\ lastEvent.value = <<"j","a","v","a">>
     /\ issued = 1
     /\ \E i \in Positions(topics) : topics[i].name = NameTypeScript
     /\ ~HasId(topics, Lit(2)))
    => /\ Names(topics) = <<NameTypeScript, NameHTML, NameJavaScript, NameReact>>
       /\ Names(FilteredTopics(topics, filter)) = <<NameJavaScript>>
       /\ DOMAIN views = {Lit(3)}

C11_Scenario ==
    /\ C11_SeedIsAsStated
    /\ C11_AfterCreate
    /\ C11_AfterDelete
    /\ C11_AfterFilter

\* the end of the scenario: TypeScript created, CSS deleted, "java" entered
\* as filter text last, and JavaScript alone displayed
C11_Witness ==
    /\ events = 4
    /\ lastEvent.op = "setFilter"
    /\ filter = <<"j","a","v","a">>
    /\ issued = 1
    /\ Names(topics) = <<NameTypeScript, NameHTML, NameJavaScript, NameReact>>
    /\ DOMAIN views = {Lit(3)}

(***************************************************************************)
(* Vocabulary of the record views                                          *)
(***************************************************************************)
Mounted(vs, id) == id \in DOMAIN vs

Editing(vs, id) == Mounted(vs, id) /\ vs[id].isEditing

Viewing(vs, id) == Mounted(vs, id) /\ ~vs[id].isEditing

\* the name of the topic with the given id (ids are distinct, C1)
NameOf(ts, id) == ts[CHOOSE i \in Positions(ts) : ts[i].id = id].name

AllStartViewing ==
    /\ \A id \in DOMAIN views : views[id].isEditing = FALSE
    /\ [][ \A id \in DOMAIN views' \ DOMAIN views :
              views'[id].isEditing = FALSE ]_vars

EditEntersEditing ==
    [][ lastEvent'.op = "edit"
        => /\ Viewing(views, lastEvent'.id)
           /\ Editing(views', lastEvent'.id) ]_vars

(***************************************************************************)
(* C12, as stated: a record view starts in Viewing; enter-edit takes       *)
(* Viewing to Editing; commit in Editing calls rename with the topic's id  *)
(* and the buffer and takes the view to Viewing, the topic's name in the   *)
(* collection then being the buffer.                                       *)
(***************************************************************************)
C12_CommitLeadsToViewing ==
    /\ AllStartViewing
    /\ EditEntersEditing
    /\ [][ lastEvent'.op = "rename"
           => /\ Editing(views, lastEvent'.id)
              /\ lastEvent'.name = views[lastEvent'.id].name
              /\ HasId(topics', lastEvent'.id)
              /\ NameOf(topics', lastEvent'.id) = views[lastEvent'.id].name
              /\ Viewing(views', lastEvent'.id)
              /\ views'[lastEvent'.id].name = views[lastEvent'.id].name ]_vars

(***************************************************************************)
(* C12, amended: as above, but after commit the view is in Viewing (with   *)
(* the buffer it had) when the committed name still matches the filter     *)
(* text, and no longer exists when it does not.                            *)
(***************************************************************************)
C12_CommitLeadsToViewingOrUnmount ==
    /\ AllStartViewing
    /\ EditEntersEditing
    /\ [][ lastEvent'.op = "rename"
           => /\ Editing(views, lastEvent'.id)
              /\ lastEvent'.name = views[lastEvent'.id].name
              /\ HasId(topics', lastEvent'.id)
              /\ NameOf(topics', lastEvent'.id) = views[lastEvent'.id].name
              /\ IF ContainsFolded(views[lastEvent'.id].name, filter')
                 THEN /\ Viewing(views', lastEvent'.id)
                      /\ views'[lastEvent'.id].name = views[lastEvent'.id].name
                 ELSE ~Mounted(views', lastEvent'.id) ]_vars

\* a commit has stored a name that does not match the filter text: the
\* topic is in the collection and has no record view
C12_Witness ==
    /\ lastEvent.op = "rename"
    /\ HasId(topics, lastEvent.id)
    /\ NameOf(topics, lastEvent.id) = lastEvent.name
    /\ ~Mounted(views, lastEvent.id)

(***************************************************************************)
(* C13, as stated: under any sequence of create, delete, rename, filter    *)
(* change, enter-edit, buffer edit and commit, the record view of a topic  *)
(* that is still in the collection never goes from Editing to Viewing      *)
(* without a commit for that topic in between.                             *)
(***************************************************************************)
C13_ViewingAfterEditingOnlyByCommit ==
    \A id \in openEdits : HasId(topics, id) => ~Viewing(views, id)

(***************************************************************************)
(* C13, amended: the record view of a topic that stays in the collection   *)
(* leaves Editing only by a commit for that topic or by being destroyed    *)
(* when a filter change makes the topic stop matching; it goes from        *)
(* Editing to Viewing in one step only by the commit, and a view created   *)
(* later starts in Viewing.                                                *)
(***************************************************************************)
C13_LeavesEditingByCommitOrFilter ==
    /\ [][ \A id \in DOMAIN views :
             (views[id].isEditing /\ HasId(topics', id))
             => \/ Editing(views', id)
                \/ /\ lastEvent'.op = "rename"
                   /\ lastEvent'.id = id
                \/ /\ lastEvent'.op = "setFilter"
                   /\ ~Mounted(views', id)
                   /\ ~ContainsFolded(NameOf(topics', id), filter') ]_vars
    /\ [][ \A id \in DOMAIN views' \ DOMAIN views :
             views'[id].isEditing = FALSE /\ views'[id].name = NameOf(topics', id)
         ]_vars
    /\ [](\A id \in openEdits : Mounted(views, id) => HasId(topics, id))

\* a view that was put into Editing and never committed is in Viewing: it
\* was destroyed by one filter change and created anew by another
C13_Witness ==
    \E id \in openEdits :
        /\ HasId(topics, id)
        /\ Viewing(views, id)
        /\ lastEvent.op = "setFilter"

(***************************************************************************)
(* C14: when a record view enters Editing its buffer equals the topic's    *)
(* name in the collection at that moment; while the view is in Editing the *)
(* buffer changes only by the user's edits of that view, to the text       *)
(* entered, and is not overwritten from the collection.                    *)
(***************************************************************************)
C14_BufferFromNameThenUserOnly ==
    /\ [][ lastEvent'.op = "edit"
           => /\ Editing(views', lastEvent'.id)
              /\ HasId(topics', lastEvent'.id)
              /\ views'[lastEvent'.id].name = NameOf(topics', lastEvent'.id) ]_vars
    /\ [][ \A id \in DOMAIN views :
             (views[id].isEditing /\ Mounted(views', id)
                /\ views'[id].name # views[id].name)
             => /\ lastEvent'.op = "setName"
                /\ lastEvent'.id = id
                /\ views'[id].name = lastEvent'.value
                /\ topics' = topics ]_vars

\* Editing was entered a second time, after a commit had changed the name,
\* and the buffer is again the name in the collection
C14_Witness ==
    /\ lastEvent.op = "edit"
    /\ Editing(views, lastEvent.id)
    /\ \E i \in Positions(initialCategory.topics) :
         /\ initialCategory.topics[i].id = lastEvent.id
         /\ HasId(topics, lastEvent.id)
         /\ NameOf(topics, lastEvent.id) # initialCategory.topics[i].name
         /\ views[lastEvent.id].name = NameOf(topics, lastEvent.id)

(***************************************************************************)
(* C15: Delete is enabled for a record view in Viewing and in Editing;     *)
(* after it the topic is not in the collection and has no record view, no  *)
(* later enter-edit, buffer edit or commit names that topic, the id never  *)
(* comes back, and the buffer of the deleted view is not written to the    *)
(* collection (the remaining topics are the previous ones, unchanged).     *)
(***************************************************************************)
Deleted == seenIds \ TopicIds(topics)

C15_DeleteIsTerminal ==
    /\ [](\A id \in DOMAIN views :
             events < MaxEvents => ENABLED HandleDeleteTopic(id))
    /\ [](\A id \in Deleted : ~Mounted(views, id))
    /\ [][ lastEvent'.op = "delete"
           => /\ ~HasId(topics', lastEvent'.id)
              /\ ~Mounted(views', lastEvent'.id)
              /\ lastEvent'.id \in seenIds' \ TopicIds(topics')
              /\ \A i \in Positions(topics') :
                   \E j \in Positions(topics) : topics'[i] = topics[j] ]_vars
    /\ [][ lastEvent'.op \in {"edit", "setName", "rename"}
           => /\ lastEvent'.id \notin Deleted
              /\ HasId(topics, lastEvent'.id) ]_vars
    /\ [][ TopicIds(topics') \cap Deleted = {} ]_vars

\* a view in Editing whose buffer "s" was never committed has been deleted,
\* and no topic carries that text
C15_Witness ==
    /\ events = 3
    /\ lastEvent.op = "delete"
    /\ lastEvent.view # <<>>
    /\ lastEvent.view[1].isEditing
    /\ lastEvent.view[1].name = <<"s">>
    /\ lastEvent.id \in Deleted
    /\ \A i \in Positions(topics) : topics[i].name # <<"s">>

(***************************************************************************)
(* C16: each create, delete or rename event leaves the collection either   *)
(* unchanged or equal to the complete result of that operation applied to  *)
(* the collection the previous event left; the other events leave it       *)
(* unchanged; the handlers always read the current collection, so no       *)
(* earlier event's effect is lost.                                         *)
(***************************************************************************)
C16_OperationsAtomic ==
    /\ [](closure.topics = topics /\ closure.newTopicName = newTopicName)
    /\ [][ lastEvent'.op = "create"
           => \/ topics' = topics
              \/ /\ Len(topics') = Len(topics) + 1
                 /\ Tail(topics') = topics
                 /\ IsTrimmed(topics'[1].name, lastEvent'.raw) ]_vars
    /\ [][ lastEvent'.op = "delete"
           => IsSubseqAt(topics', topics,
                 {i \in Positions(topics) : topics[i].id # lastEvent'.id}) ]_vars
    /\ [][ lastEvent'.op = "rename"
           => /\ Len(topics') = Len(topics)
              /\ \A i \in Positions(topics) :
                   topics'[i] = IF topics[i].id = lastEvent'.id
                                THEN [id |-> topics[i].id, name |-> lastEvent'.name]
                                ELSE topics[i] ]_vars
    /\ [][ lastEvent'.op \notin {"create", "delete", "rename"}
           => topics' = topics ]_vars

\* a rename was processed after a delete: the deleted seed topic is still
\* gone and another seed topic carries its new name
C16_Witness ==
    /\ lastEvent.op = "rename"
    /\ lastEvent.present
    /\ lastEvent.name = <<"s">>
    /\ NameOf(topics, lastEvent.id) = <<"s">>
    /\ Len(topics) = Len(initialCategory.topics) - 1
    /\ TopicIds(topics) \subseteq TopicIds(initialCategory.topics)

(***************************************************************************)
(* C17: the collection consists of the surviving created topics, the most  *)
(* recently created first, followed by the surviving seed topics in seed   *)
(* order; two topics that are both present before and after a step keep    *)
(* their relative order (delete and rename never reorder).                 *)
(***************************************************************************)
SeedPos(id) ==
    CHOOSE i \in Positions(initialCategory.topics) :
        initialCategory.topics[i].id = id

\* the uuid ids are numbered in the order of their creation
ComesBefore(a, b) ==
    \/ a.kind = "uuid" /\ b.kind = "lit"
    \/ a.kind = "uuid" /\ b.kind = "uuid" /\ a.n > b.n
    \/ a.kind = "lit" /\ b.kind = "lit" /\ SeedPos(a) < SeedPos(b)

PosOf(ts, id) == CHOOSE i \in Positions(ts) : ts[i].id = id

C17_MostRecentFirst ==
    /\ [](\A i \in Positions(topics), j \in Positions(topics) :
             i < j => ComesBefore(topics[i].id, topics[j].id))
    /\ [][ \A i \in Positions(topics), j \in Positions(topics) :
             (i < j /\ HasId(topics', topics[i].id) /\ HasId(topics', topics[j].id))
             => PosOf(topics', topics[i].id) < PosOf(topics', topics[j].id) ]_vars
    /\ [][ lastEvent'.op \in {"delete", "rename"}
           => \A k \in Positions(topics') :
                 \E i \in Positions(topics) :
                     /\ topics[i].id = topics'[k].id
                     /\ k <= i ]_vars

\* two topics were created and a seed topic was deleted after that
C17_Witness ==
    /\ issued = 2
    /\ lastEvent.op = "delete"
    /\ lastEvent.id.kind = "lit"
    /\ Len(topics) = Len(initialCategory.topics) + 1
    /\ topics[1].id = V1(1)
    /\ topics[2].id = V1(0)

(***************************************************************************)
(* C18: a topic's id is assigned at creation and never changes: rename     *)
(* keeps the id sequence, every step leaves the id sequence as it is, puts *)
(* one never-seen id in front of it (create) or removes the deleted id     *)
(* from it, and an id removed by delete never comes back.                  *)
(***************************************************************************)
Ids(ts) == [i \in Positions(ts) |-> ts[i].id]

C18_IdsNeverChange ==
    /\ [](TopicIds(topics) \subseteq seenIds)
    /\ [][ lastEvent'.op = "rename" => Ids(topics') = Ids(topics) ]_vars
    /\ [][ \/ Ids(topics') = Ids(topics)
           \/ /\ lastEvent'.op = "create"
              /\ Ids(topics') # <<>>
              /\ Tail(Ids(topics')) = Ids(topics)
              /\ Head(Ids(topics')) \notin seenIds
           \/ /\ lastEvent'.op = "delete"
              /\ IsSubseqAt(Ids(topics'), Ids(topics),
                    {i \in Positions(topics) : topics[i].id # lastEvent'.id}) ]_vars
    /\ [][ \A id \in seenIds : ~HasId(topics, id) => ~HasId(topics', id) ]_vars

\* after a delete, a topic was renamed to " S ": it has the id and the
\* place it had in the seed, and the deleted id is absent
C18_Witness ==
    /\ lastEvent.op = "rename"
    /\ lastEvent.name = <<" ","S"," ">>
    /\ Deleted # {}
    /\ \E i \in Positions(topics) :
         /\ topics[i].id = lastEvent.id
         /\ topics[i].name = <<" ","S"," ">>
         /\ topics[i].id.kind = "lit"

(***************************************************************************)
(* C19: an accepted create sets the new-name input to the empty string in  *)
(* the step that prepends the topic; a rejected create leaves it as typed; *)
(* delete, rename, filter changes (and the events of the record views)     *)
(* never change it.                                                        *)
(***************************************************************************)
C19_NewNameBuffer ==
    /\ [][ (lastEvent'.op = "create" /\ ~Blank(lastEvent'.raw))
           => /\ lastEvent'.raw = newTopicName
              /\ Len(topics') = Len(topics) + 1
              /\ newTopicName' = <<>> ]_vars
    /\ [][ (lastEvent'.op = "create" /\ Blank(lastEvent'.raw))
           => /\ lastEvent'.raw = newTopicName
              /\ newTopicName' = newTopicName ]_vars
    /\ [][ lastEvent'.op \in {"delete", "rename", "setFilter", "edit", "setName"}
           => newTopicName' = newTopicName ]_vars
    /\ [][ lastEvent'.op = "setNewTopicName"
           => newTopicName' = lastEvent'.value ]_vars

\* " S " was typed and accepted: the topic "S" is at the head and the input
\* is empty
C19_Witness ==
    /\ lastEvent.op = "create"
    /\ lastEvent.raw = <<" ","S"," ">>
    /\ topics[1].name = <<"S">>
    /\ topics[1].id.kind = "uuid"
    /\ newTopicName = <<>>

(***************************************************************************)
(* C20: the filtered view owns no state: a filter change leaves the        *)
(* collection unchanged, create, delete and rename leave the filter text   *)
(* unchanged, and in every state the topics displayed are the filter       *)
(* function applied to the current collection and the current filter text. *)
(***************************************************************************)
C20_ViewIsDerived ==
    /\ [](DOMAIN views = TopicIds(FilteredTopics(topics, filter)))
    /\ [](DOMAIN views =
            { topics[i].id : i \in {j \in Positions(topics) :
                                      ContainsFolded(topics[j].name, filter)} })
    /\ [][ lastEvent'.op = "setFilter"
           => /\ topics' = topics
              /\ filter' = lastEvent'.value ]_vars
    /\ [][ lastEvent'.op \in {"create", "delete", "rename"}
           => filter' = filter ]_vars

\* with the filter text "s" set before, a topic "S" was created: it is
\* displayed at once, and HTML is not
C20_Witness ==
    /\ filter = <<"s">>
    /\ lastEvent.op = "create"
    /\ topics[1].id.kind = "uuid"
    /\ topics[1].name = <<"S">>
    /\ Mounted(views, topics[1].id)
    /\ HasId(topics, Lit(1))
    /\ ~Mounted(views, Lit(1))

(***************************************************************************)
(* C21: entering edit mode and editing the buffer of a record view leave   *)
(* the collection as it is and leave every other record view (its mode and *)
(* its buffer, and whether it exists) as it is; the name of a topic in the *)
(* collection changes only in a commit of that topic's own record view,    *)
(* which was in Editing, and becomes the buffer of that view.              *)
(***************************************************************************)
C21_LocalEditsAreLocal ==
    /\ [][ lastEvent'.op \in {"edit", "setName"}
           => /\ topics' = topics
              /\ Mounted(views, lastEvent'.id)
              /\ DOMAIN views' = DOMAIN views
              /\ \A id \in DOMAIN views :
                   id # lastEvent'.id => views'[id] = views[id] ]_vars
    /\ [][ lastEvent'.op = "edit"
           => /\ Mounted(views', lastEvent'.id)
              /\ views'[lastEvent'.id].name = views[lastEvent'.id].name ]_vars
    /\ [][ lastEvent'.op = "setName"
           => /\ Mounted(views', lastEvent'.id)
              /\ views'[lastEvent'.id].isEditing
                    = views[lastEvent'.id].isEditing ]_vars
    /\ [][ \A i \in Positions(topics) :
             (HasId(topics', topics[i].id)
                /\ NameOf(topics', topics[i].id) # topics[i].name)
             => /\ lastEvent'.op = "rename"
                /\ lastEvent'.id = topics[i].id
                /\ Editing(views, topics[i].id)
                /\ NameOf(topics', topics[i].id) = views[topics[i].id].name
         ]_vars

\* two record views are in Editing with different buffers, the last event
\* was a buffer edit of one of them, and the collection is still the seed
C21_Witness ==
    /\ lastEvent.op = "setName"
    /\ topics = initialCategory.topics
    /\ \E other \in DOMAIN views :
         /\ other # lastEvent.id
         /\ Editing(views, other)
         /\ Editing(views, lastEvent.id)
         /\ views[other].name = <<"s">>
         /\ views[lastEvent.id].name = <<" ">>

(***************************************************************************)
(* C22: in every reachable state, every record view that is in Viewing     *)
(* belongs to a topic of the collection and its buffer equals that topic's *)
(* current name; a buffer differs from the name in the collection only in  *)
(* a view that is in Editing.                                              *)
(***************************************************************************)
C22_ViewingBufferIsName ==
    \A id \in DOMAIN views :
        /\ HasId(topics, id)
        /\ (views[id].name # NameOf(topics, id) => Editing(views, id))
        /\ (Viewing(views, id) => views[id].name = NameOf(topics, id))

\* a commit has stored " S " for a seed topic whose view is back in
\* Viewing with that buffer, while another view is in Editing with a buffer
\* that differs from its topic's name
C22_Witness ==
    /\ lastEvent.op = "rename"
    /\ lastEvent.name = <<" ","S"," ">>
    /\ Viewing(views, lastEvent.id)
    /\ views[lastEvent.id].name = <<" ","S"," ">>
    /\ NameOf(topics, lastEvent.id) = <<" ","S"," ">>
    /\ \E other \in DOMAIN views :
         /\ Editing(views, other)
         /\ views[other].name # NameOf(topics, other)

(***************************************************************************)
(* C23: record views exist exactly for the topics whose name matches the   *)
(* filter text.  A view of a topic that stays in the collection is         *)
(* destroyed only by a filter change or by the commit of that view, when   *)
(* the topic's name no longer matches; the topic keeps its committed name  *)
(* (a filter change writes nothing to the collection).  A view that is     *)
(* created is in Viewing and its buffer is the topic's name in the         *)
(* collection; for a topic that was there before, this happens only by a   *)
(* filter change and the name is the one the topic had.                    *)
(***************************************************************************)
C23_ViewsFollowFilter ==
    /\ [](DOMAIN views =
            { id \in TopicIds(topics) :
                \E i \in Positions(topics) :
                    /\ topics[i].id = id
                    /\ ContainsFolded(topics[i].name, filter) })
    /\ [][ \A id \in DOMAIN views \ DOMAIN views' :
             HasId(topics', id)
             => /\ ~ContainsFolded(NameOf(topics', id), filter')
                /\ \/ /\ lastEvent'.op = "setFilter"
                      /\ topics' = topics
                   \/ /\ lastEvent'.op = "rename"
                      /\ lastEvent'.id = id
                      /\ filter' = filter
                      /\ NameOf(topics', id) = views[id].name ]_vars
    /\ [][ \A id \in DOMAIN views' \ DOMAIN views :
             /\ Viewing(views', id)
             /\ HasId(topics', id)
             /\ views'[id].name = NameOf(topics', id)
             /\ HasId(topics, id)
                => /\ lastEvent'.op = "setFilter"
                   /\ topics' = topics
                   /\ ~ContainsFolded(NameOf(topics, id), filter)
                   /\ ContainsFolded(NameOf(topics, id), filter') ]_vars

\* the view of a seed topic was put into Editing and never committed; a
\* filter change destroyed it and the last filter change created it anew,
\* in Viewing, with the seed name as its buffer; the collection is the seed
C23_Witness ==
    /\ lastEvent.op = "setFilter"
    /\ filter = <<>>
    /\ topics = initialCategory.topics
    /\ Lit(1) \in openEdits
    /\ views[Lit(1)] = [isEditing |-> FALSE, name |-> NameHTML]
    /\ Cardinality(DOMAIN views) = Len(topics)

====
